---- MODULE Spec2Model ----
(***************************************************************************)
(* Model of packages/inferno/src/DOM/props.ts: the property reconciler of  *)
(* a host element (patchProp, removeProp, patchEvent, patchStyle,          *)
(* mountProps) over an abstract host node.                                 *)
(*                                                                         *)
(* Property names and style keys are sequences of one-character strings,   *)
(* so that attr[0], attr[1] and toLowerCase() are computed, not assumed.   *)
(* A JavaScript value is a record with the fields t (typeof tag), n        *)
(* (number, boolean as 0/1, or the identity of a function or object), s    *)
(* (string payload; for an object its __html), m (for an object its own    *)
(* enumerable style entries), e (for an object its `event` field; for a    *)
(* link-event closure the identity of the object it closes over).          *)
(* Two objects are the same object (===) iff their records are equal, so   *)
(* two objects with equal contents and different n are distinct objects.   *)
(***************************************************************************)
EXTENDS Integers, Sequences, FiniteSets, TLC

VARIABLES dom, pre, call, prev

vars == <<dom, pre, call, prev>>

-----------------------------------------------------------------------------
(* Bounds of the model *)

\* object and function identities are drawn from 1..MaxRef
MaxRef == 2
\* the largest numeric property or style value that is drawn
MaxNum == 10
\* the longest property map mountProps is given
MaxProps == 2

-----------------------------------------------------------------------------
(* Property names *)

N_onClick == <<"o","n","C","l","i","c","k">>
N_onInput == <<"o","n","I","n","p","u","t">>
N_oninput == <<"o","n","i","n","p","u","t">>
N_key == <<"k","e","y">>
N_checked == <<"c","h","e","c","k","e","d">>
N_disabled == <<"d","i","s","a","b","l","e","d">>
N_autoFocus == <<"a","u","t","o","F","o","c","u","s">>
N_autofocus == <<"a","u","t","o","f","o","c","u","s">>
N_volume == <<"v","o","l","u","m","e">>
N_value == <<"v","a","l","u","e">>
N_style == <<"s","t","y","l","e">>
N_dangerouslySetInnerHTML == <<"d","a","n","g","e","r","o","u","s","l","y","S","e","t","I","n","n","e","r","H","T","M","L">>
N_textContent == <<"t","e","x","t","C","o","n","t","e","n","t">>
N_innerHTML == <<"i","n","n","e","r","H","T","M","L">>
N_id == <<"i","d">>
N_xlinkHref == <<"x","l","i","n","k",":","h","r","e","f">>
N_width == <<"w","i","d","t","h">>
N_height == <<"h","e","i","g","h","t">>
N_opacity == <<"o","p","a","c","i","t","y">>
N_none == <<>>

StyleKeys == {N_width, N_height, N_opacity}
\* the order in which for-in enumerates the style keys of an object
StyleKeyOrder == <<N_width, N_height, N_opacity>>

-----------------------------------------------------------------------------
(* JavaScript values *)

Absent3 == [t |-> "absent", n |-> 0, s |-> ""]
NoStyle == [k \in StyleKeys |-> Absent3]

Undef == [t |-> "undefined", n |-> 0, s |-> "", m |-> NoStyle, e |-> 0]
Null == [t |-> "null", n |-> 0, s |-> "", m |-> NoStyle, e |-> 0]
Bool(b) == [t |-> "boolean", n |-> IF b THEN 1 ELSE 0, s |-> "", m |-> NoStyle, e |-> 0]
Num(n) == [t |-> "number", n |-> n, s |-> "", m |-> NoStyle, e |-> 0]
Str(s) == [t |-> "string", n |-> 0, s |-> s, m |-> NoStyle, e |-> 0]
\* a plain function; s = "wrapped" when it carries the truthy `wrapped` field
Fn(id) == [t |-> "function", n |-> id, s |-> "", m |-> NoStyle, e |-> 0]
WrappedFn(id) == [t |-> "function", n |-> id, s |-> "wrapped", m |-> NoStyle, e |-> 0]
\* an object { __html: html }
HtmlObj(ref, html) == [t |-> "object", n |-> ref, s |-> html, m |-> NoStyle, e |-> 0]
\* an object { event: ev, data: ... }; ev > 0 is the function Fn(ev), ev = 0 a
\* missing field, ev < 0 a truthy value that is no function
LinkObj(ref, ev) == [t |-> "object", n |-> ref, s |-> "", m |-> NoStyle, e |-> ev]
\* an object whose own enumerable entries are the style entries m
StyleObj(ref, m) == [t |-> "object", n |-> ref, s |-> "", m |-> m, e |-> 0]

isFunction(o) == o.t = "function"
isNull(o) == o.t = "null"
isNullOrUndef(o) == o.t \in {"undefined", "null"}
isNumber(o) == o.t = "number"
isString(o) == o.t = "string"

\* ToBoolean: what !!o and `if (o)` see
Truthy(o) ==
  CASE o.t \in {"undefined", "null"} -> FALSE
    [] o.t = "boolean" -> o.n = 1
    [] o.t = "number" -> o.n # 0
    [] o.t = "string" -> o.s # ""
    [] OTHER -> TRUE

Digit == <<"0", "1", "2", "3", "4", "5", "6", "7", "8", "9">>

RECURSIVE NumToStr(_)
\* Number.prototype.toString of a non-negative integer
NumToStr(n) ==
  IF n < 10 THEN Digit[n + 1] ELSE NumToStr(n \div 10) \o Digit[(n % 10) + 1]

\* value + 'px' for a number value
PlusPx(value) == Str(NumToStr(value.n) \o "px")

UpperChars == <<"A","B","C","D","E","F","G","H","I","J","K","L","M","N","O","P","Q","R","S","T","U","V","W","X","Y","Z">>
LowerChars == <<"a","b","c","d","e","f","g","h","i","j","k","l","m","n","o","p","q","r","s","t","u","v","w","x","y","z">>

LowerChar(c) ==
  IF \E i \in 1..Len(UpperChars) : UpperChars[i] = c
    THEN LowerChars[CHOOSE i \in 1..Len(UpperChars) : UpperChars[i] = c]
    ELSE c

\* String.prototype.toLowerCase
toLowerCase(name) == [i \in 1..Len(name) |-> LowerChar(name[i])]

\* obj[style] for a style key: undefined when the object has no such entry
Field(obj, k) ==
  IF obj.t = "object" /\ obj.m[k].t # "absent"
    THEN [t |-> obj.m[k].t, n |-> obj.m[k].n, s |-> obj.m[k].s, m |-> NoStyle, e |-> 0]
    ELSE Undef

\* the keys for (style in obj) visits, in enumeration order
KeysOf(obj) ==
  IF obj.t = "object"
    THEN SelectSeq(StyleKeyOrder, LAMBDA k : obj.m[k].t # "absent")
    ELSE <<>>

\* (o && o.__html) || ''
HtmlOf(o) == IF Truthy(o) /\ o.t = "object" THEN o.s ELSE ""

-----------------------------------------------------------------------------
(* Bit flags (inferno-vnode-flags) *)

RECURSIVE BitAnd(_, _)
BitAnd(a, b) ==
  IF a = 0 \/ b = 0 THEN 0
  ELSE 2 * BitAnd(a \div 2, b \div 2) + (IF a % 2 = 1 /\ b % 2 = 1 THEN 1 ELSE 0)

VNodeFlags_HtmlElement == 1
VNodeFlags_InputElement == 64
VNodeFlags_TextareaElement == 128
VNodeFlags_SelectElement == 256
VNodeFlags_FormElement == 448

ChildFlags_HasInvalidChildren == 1
ChildFlags_HasVNodeChildren == 2
ChildFlags_HasNonKeyedChildren == 4
ChildFlags_HasKeyedChildren == 8
ChildFlags_MultipleChildren == 12

-----------------------------------------------------------------------------
(* Classification tables (./constants) *)

delegatedEvents == {N_onClick}
skipProps == {N_key, N_checked}
booleanProps == {N_checked, N_disabled, N_autoFocus}
strictProps == {N_volume, N_value}
isUnitlessNumber == {N_opacity}
namespaces == {N_xlinkHref}
namespaces_get(prop) == "http://www.w3.org/1999/xlink"

-----------------------------------------------------------------------------
(* The host node and the collaborators                                     *)
(* dom is a record: props (live properties), attrs (attributes, each with  *)
(* its namespace), style and cssText (dom.style), innerHTML (the raw       *)
(* content), delegated (the registrations of the event delegation          *)
(* subsystem for this node), lastVNode (the vnode handed to patchProp, as  *)
(* the call left it), production (process.env.NODE_ENV === 'production'),  *)
(* thrown (an exception is propagating), log (the host writes and          *)
(* collaborator calls of the current operation, in program order).         *)

Get(f, k) == IF k \in DOMAIN f THEN f[k] ELSE Undef
Put(f, k, v) == [x \in (DOMAIN f) \cup {k} |-> IF x = k THEN v ELSE f[x]]
Del(f, k) == [x \in (DOMAIN f) \ {k} |-> f[x]]
Empty == [x \in {} |-> Undef]

\* a log entry; last is the previous value of a logged patchProp call
Entry(op, name, val) == [op |-> op, name |-> name, val |-> val, last |-> Undef]
Logged(d, op, name, val) == [d EXCEPT !.log = Append(@, Entry(op, name, val))]

NullVNode == [null |-> TRUE, children |-> 0, childFlags |-> 0]
VNode(children, childFlags) == [null |-> FALSE, children |-> children, childFlags |-> childFlags]

\* dom[name] = val
SetProp(d, name, val) ==
  Logged([d EXCEPT !.props = Put(@, name, val)], "set", name, val)

\* dom.setAttribute(name, val)
SetAttribute(d, name, val) ==
  Logged([d EXCEPT !.attrs = Put(@, name, [ns |-> "", val |-> val])],
         "setAttribute", name, val)

\* dom.setAttributeNS(ns, name, val)
SetAttributeNS(d, ns, name, val) ==
  Logged([d EXCEPT !.attrs = Put(@, name, [ns |-> ns, val |-> val])],
         "setAttributeNS", name, val)

\* dom.removeAttribute(name)
RemoveAttribute(d, name) ==
  Logged([d EXCEPT !.attrs = Del(@, name)], "removeAttribute", name, Undef)

\* domStyle[style] = val
SetStyle(d, style, val) ==
  Logged([d EXCEPT !.style = Put(@, style, val)], "style", style, val)

\* domStyle.cssText = val
SetCssText(d, val) ==
  Logged([d EXCEPT !.cssText = val], "cssText", N_none, val)

\* what the host keeps of a markup string assigned to innerHTML
NormalizeHtml(html) == IF html = "<P>a</P>" THEN "<p>a</p>" ELSE html

\* dom.innerHTML = html
SetInnerHTML(d, html) ==
  Logged([d EXCEPT !.innerHTML = NormalizeHtml(html)], "innerHTML", N_none, Str(html))

\* dom.textContent = ''
ClearTextContent(d) ==
  Logged([d EXCEPT !.innerHTML = ""], "textContent", N_none, Str(""))

\* isSameInnerHTML(dom, innerHTML) of ./utils/innerhtml
isSameInnerHTML(d, html) == d.innerHTML = NormalizeHtml(html)

\* handleEvent(name, nextEvent, dom) of ./events/delegation
handleEvent(name, nextEvent, d) ==
  Logged([d EXCEPT !.delegated = IF Truthy(nextEvent) THEN Put(@, name, nextEvent)
                                                      ELSE Del(@, name)],
         "handleEvent", name, nextEvent)

\* unmount(children) and unmountAllChildren(children) of ./unmounting
unmount(children, d) == Logged(d, "unmount", N_none, Num(children))
unmountAllChildren(children, d) == Logged(d, "unmountAllChildren", N_none, Num(children))

\* throwError(message) of inferno-shared
throwError(d) == Logged([d EXCEPT !.thrown = TRUE], "throwError", N_none, Undef)

\* isControlledFormElement(props) and processElement(...) of ./wrappers/processElement
isControlledFormElement(props) == props.controlled
processElement(flags, vNode, d, props, isMount, isControlled) ==
  Logged(d, IF isMount THEN "processElement:mount" ELSE "processElement:update",
         N_none, Bool(isControlled))

-----------------------------------------------------------------------------
(* props.ts *)

isAttrAnEvent(attr) ==
  /\ Len(attr) >= 2
  /\ attr[1] = "o"
  /\ attr[2] = "n"

\* nextValue.event
EventOf(nextValue) ==
  IF nextValue.t = "object" /\ nextValue.e > 0 THEN Fn(nextValue.e)
  ELSE IF nextValue.t = "object" /\ nextValue.e < 0 THEN Str("handler")
  ELSE Undef

\* the closure function(e) { linkEvent(nextValue.data, e) }
createLinkEvent(linkEvent, nextValue) ==
  [t |-> "function", n |-> linkEvent.n, s |-> "linkEvent", m |-> NoStyle, e |-> nextValue.n]

\* domEvent.wrapped
Wrapped(domEvent) == domEvent.t = "function" /\ domEvent.s = "wrapped"

\* a plausible slip: the slot is overwritten without looking at domEvent.wrapped
patchEvent_ignoresWrapped(name, lastValue, nextValue, d) ==
  LET nameLowerCase == toLowerCase(name) IN
  IF ~isFunction(nextValue) /\ ~isNullOrUndef(nextValue)
    THEN LET linkEvent == EventOf(nextValue) IN
         IF Truthy(linkEvent) /\ isFunction(linkEvent)
           THEN SetProp(d, nameLowerCase, createLinkEvent(linkEvent, nextValue))
           ELSE IF ~d.production THEN throwError(d) ELSE d
    ELSE SetProp(d, nameLowerCase, nextValue)

patchEvent(name, lastValue, nextValue, d) ==
  LET nameLowerCase == toLowerCase(name) IN
  IF ~isFunction(nextValue) /\ ~isNullOrUndef(nextValue)
    THEN LET linkEvent == EventOf(nextValue) IN
         IF Truthy(linkEvent) /\ isFunction(linkEvent)
           THEN SetProp(d, nameLowerCase, createLinkEvent(linkEvent, nextValue))
           ELSE IF ~d.production THEN throwError(d) ELSE d
    ELSE LET domEvent == Get(d.props, nameLowerCase) IN
         IF ~Truthy(domEvent) \/ ~Wrapped(domEvent)
           THEN SetProp(d, nameLowerCase, nextValue)
           ELSE d

\* !isNumber(value) || isUnitlessNumber.has(style) ? value : value + 'px'
StyleValue(style, value) ==
  IF ~isNumber(value) \/ style \in isUnitlessNumber THEN value ELSE PlusPx(value)

RECURSIVE PatchStyleDiff_writesEveryKey(_, _, _, _)
\* a plausible slip: every key of next is written, changed or not
PatchStyleDiff_writesEveryKey(keys, lastAttrValue, nextAttrValue, d) ==
  IF keys = <<>> THEN d
  ELSE LET style == Head(keys)
           value == Field(nextAttrValue, style)
       IN PatchStyleDiff_writesEveryKey(Tail(keys), lastAttrValue, nextAttrValue,
                                        SetStyle(d, style, StyleValue(style, value)))

RECURSIVE PatchStyleDiff(_, _, _, _)
\* for (style in nextAttrValue), previous and next both structured
PatchStyleDiff(keys, lastAttrValue, nextAttrValue, d) ==
  IF keys = <<>> THEN d
  ELSE LET style == Head(keys)
           value == Field(nextAttrValue, style)
           d1 == IF value # Field(lastAttrValue, style)
                   THEN SetStyle(d, style, StyleValue(style, value))
                   ELSE d
       IN PatchStyleDiff(Tail(keys), lastAttrValue, nextAttrValue, d1)

\* a plausible slip: the keys that left the map are not cleared
PatchStyleClear_skipped(keys, nextAttrValue, d) == d

RECURSIVE PatchStyleClear(_, _, _)
\* for (style in lastAttrValue)
PatchStyleClear(keys, nextAttrValue, d) ==
  IF keys = <<>> THEN d
  ELSE LET style == Head(keys)
           d1 == IF isNullOrUndef(Field(nextAttrValue, style))
                   THEN SetStyle(d, style, Str(""))
                   ELSE d
       IN PatchStyleClear(Tail(keys), nextAttrValue, d1)

RECURSIVE PatchStyleAll(_, _, _)
\* for (style in nextAttrValue), no structured previous
PatchStyleAll(keys, nextAttrValue, d) ==
  IF keys = <<>> THEN d
  ELSE LET style == Head(keys)
           value == Field(nextAttrValue, style)
       IN PatchStyleAll(Tail(keys), nextAttrValue, SetStyle(d, style, StyleValue(style, value)))

patchStyle(lastAttrValue, nextAttrValue, d) ==
  IF isString(nextAttrValue) THEN SetCssText(d, nextAttrValue)
  ELSE IF ~isNullOrUndef(lastAttrValue) /\ ~isString(lastAttrValue)
    THEN PatchStyleClear(KeysOf(lastAttrValue), nextAttrValue,
           PatchStyleDiff(KeysOf(nextAttrValue), lastAttrValue, nextAttrValue, d))
    ELSE PatchStyleAll(KeysOf(nextAttrValue), nextAttrValue, d)

removeProp(prop, lastValue, d, nextFlags) ==
  IF prop = N_value
    THEN SetProp(d, N_value,
                 IF BitAnd(nextFlags, VNodeFlags_SelectElement) # 0 THEN Null ELSE Str(""))
  ELSE IF prop = N_style THEN RemoveAttribute(d, N_style)
  ELSE IF prop \in delegatedEvents THEN handleEvent(prop, Null, d)
  ELSE IF isAttrAnEvent(prop) THEN patchEvent(prop, lastValue, Null, d)
  ELSE IF prop = N_dangerouslySetInnerHTML THEN ClearTextContent(d)
  ELSE RemoveAttribute(d, prop)

\* a plausible slip: the markup is injected before the prior children are released
PatchInnerHTML_writesFirst(lastValue, nextValue, d, lastVNode) ==
  LET lastHtml == HtmlOf(lastValue)
      nextHtml == HtmlOf(nextValue)
  IN
  IF lastHtml # nextHtml /\ ~isSameInnerHTML(d, nextHtml)
    THEN LET d0 == SetInnerHTML(d, nextHtml) IN
         IF lastVNode.null THEN d0
         ELSE LET d2 == IF BitAnd(lastVNode.childFlags, ChildFlags_MultipleChildren) # 0
                          THEN unmountAllChildren(lastVNode.children, d0)
                        ELSE IF BitAnd(lastVNode.childFlags, ChildFlags_HasVNodeChildren) # 0
                          THEN unmount(lastVNode.children, d0)
                        ELSE d0
                  d3 == Logged([d2 EXCEPT !.lastVNode.children = 0],
                               "lastVNode.children", N_none, Null)
              IN Logged([d3 EXCEPT !.lastVNode.childFlags = ChildFlags_HasInvalidChildren],
                        "lastVNode.childFlags", N_none, Num(ChildFlags_HasInvalidChildren))
    ELSE d

\* a plausible slip: the payloads are not compared by their html strings
PatchInnerHTML_ignoresLastHtml(lastValue, nextValue, d, lastVNode) ==
  LET nextHtml == HtmlOf(nextValue) IN
  IF ~isSameInnerHTML(d, nextHtml)
    THEN LET d1 == IF lastVNode.null THEN d
                   ELSE LET d2 == IF BitAnd(lastVNode.childFlags, ChildFlags_MultipleChildren) # 0
                                    THEN unmountAllChildren(lastVNode.children, d)
                                  ELSE IF BitAnd(lastVNode.childFlags, ChildFlags_HasVNodeChildren) # 0
                                    THEN unmount(lastVNode.children, d)
                                  ELSE d
                            d3 == Logged([d2 EXCEPT !.lastVNode.children = 0],
                                         "lastVNode.children", N_none, Null)
                        IN Logged([d3 EXCEPT !.lastVNode.childFlags = ChildFlags_HasInvalidChildren],
                                  "lastVNode.childFlags", N_none, Num(ChildFlags_HasInvalidChildren))
         IN SetInnerHTML(d1, nextHtml)
    ELSE d

\* the raw-HTML branch of patchProp
PatchInnerHTML(lastValue, nextValue, d, lastVNode) ==
  LET lastHtml == HtmlOf(lastValue)
      nextHtml == HtmlOf(nextValue)
  IN
  \* nextHtml is a string, so !isNullOrUndef(nextHtml) always holds
  IF lastHtml # nextHtml /\ ~isSameInnerHTML(d, nextHtml)
    THEN LET d1 == IF lastVNode.null THEN d
                   ELSE LET d2 == IF BitAnd(lastVNode.childFlags, ChildFlags_MultipleChildren) # 0
                                    THEN unmountAllChildren(lastVNode.children, d)
                                  ELSE IF BitAnd(lastVNode.childFlags, ChildFlags_HasVNodeChildren) # 0
                                    THEN unmount(lastVNode.children, d)
                                  ELSE d
                            d3 == Logged([d2 EXCEPT !.lastVNode.children = 0],
                                         "lastVNode.children", N_none, Null)
                        IN Logged([d3 EXCEPT !.lastVNode.childFlags = ChildFlags_HasInvalidChildren],
                                  "lastVNode.childFlags", N_none, Num(ChildFlags_HasInvalidChildren))
         IN SetInnerHTML(d1, nextHtml)
    ELSE d

\* a plausible slip: the value is assigned as given, not coerced by !!
PatchBoolean_notCoerced(prop, nextValue, d) ==
  SetProp(d, IF prop = N_autoFocus THEN toLowerCase(prop) ELSE prop, nextValue)

\* the boolean branch of patchProp
PatchBoolean(prop, nextValue, d) ==
  SetProp(d, IF prop = N_autoFocus THEN toLowerCase(prop) ELSE prop, Bool(Truthy(nextValue)))

\* a plausible slip: the write is not guarded by a read of the live value
PatchStrict_alwaysWrites(prop, nextValue, d) ==
  SetProp(d, prop, IF isNullOrUndef(nextValue) THEN Str("") ELSE nextValue)

\* the strict branch of patchProp
PatchStrict(prop, nextValue, d) ==
  LET value == IF isNullOrUndef(nextValue) THEN Str("") ELSE nextValue IN
  IF Get(d.props, prop) # value THEN SetProp(d, prop, value) ELSE d

patchProp(prop, lastValue, nextValue, d, isSVG, hasControlledValue, lastVNode) ==
  IF lastValue # nextValue
    THEN IF prop \in delegatedEvents THEN handleEvent(prop, nextValue, d)
         ELSE IF prop \in skipProps \/ (hasControlledValue /\ prop = N_value) THEN d
         ELSE IF prop \in booleanProps THEN PatchBoolean(prop, nextValue, d)
         ELSE IF prop \in strictProps THEN PatchStrict(prop, nextValue, d)
         ELSE IF isAttrAnEvent(prop) THEN patchEvent(prop, lastValue, nextValue, d)
         ELSE IF isNullOrUndef(nextValue) THEN RemoveAttribute(d, prop)
         ELSE IF prop = N_style THEN patchStyle(lastValue, nextValue, d)
         ELSE IF prop = N_dangerouslySetInnerHTML
           THEN PatchInnerHTML(lastValue, nextValue, d, lastVNode)
         ELSE IF isSVG /\ prop \in namespaces
           THEN SetAttributeNS(d, namespaces_get(prop), prop, nextValue)
         ELSE SetAttribute(d, prop, nextValue)
    ELSE d

RECURSIVE MountLoop(_, _, _, _)
\* for (const prop in props) patchProp(prop, null, props[prop], dom, isSVG, hasControlledValue, null)
MountLoop(entries, d, isSVG, hasControlledValue) ==
  IF entries = <<>> \/ d.thrown THEN d
  ELSE LET p == Head(entries)
           d1 == [d EXCEPT !.log = Append(@, [op |-> "patchProp", name |-> p.name,
                                               val |-> p.value, last |-> Null])]
       IN MountLoop(Tail(entries),
                    patchProp(p.name, Null, p.value, d1, isSVG, hasControlledValue, NullVNode),
                    isSVG, hasControlledValue)

\* a plausible slip: the post-mount hook runs before the properties are applied
mountProps_hookFirst(vNode, flags, props, d, isSVG) ==
  LET isFormElement == BitAnd(flags, VNodeFlags_FormElement) > 0
      hasControlledValue == IF isFormElement THEN isControlledFormElement(props) ELSE FALSE
      d0 == IF isFormElement
              THEN Logged(d, "isControlledFormElement", N_none, Bool(hasControlledValue))
              ELSE d
      d1 == IF isFormElement
              THEN processElement(flags, vNode, d0, props, TRUE, hasControlledValue)
              ELSE d0
  IN MountLoop(props.entries, d1, isSVG, hasControlledValue)

mountProps(vNode, flags, props, d, isSVG) ==
  LET isFormElement == BitAnd(flags, VNodeFlags_FormElement) > 0
      hasControlledValue == IF isFormElement THEN isControlledFormElement(props) ELSE FALSE
      d0 == IF isFormElement
              THEN Logged(d, "isControlledFormElement", N_none, Bool(hasControlledValue))
              ELSE d
      d1 == MountLoop(props.entries, d0, isSVG, hasControlledValue)
  IN IF isFormElement /\ ~d1.thrown
       THEN processElement(flags, vNode, d1, props, TRUE, hasControlledValue)
       ELSE d1

-----------------------------------------------------------------------------
(* State *)
(* dom: the host node with its collaborators after the latest operation.   *)
(* pre: the same before that operation (as handed to it).                  *)
(* call: the latest operation and its arguments.                           *)
(* prev: the operation before the latest one and its log (kept only where  *)
(* two consecutive calls are compared).                                    *)

NoProps == [entries |-> <<>>, controlled |-> FALSE]

Call(op, prop, lastValue, nextValue, isSVG, hcv, flags, props, chain) ==
  [op |-> op, prop |-> prop, lastValue |-> lastValue, nextValue |-> nextValue,
   isSVG |-> isSVG, hcv |-> hcv, flags |-> flags, props |-> props, chain |-> chain]

InitCall == Call("init", N_none, Undef, Undef, FALSE, FALSE, 0, NoProps, FALSE)
NoPrev == [call |-> InitCall, log |-> <<>>]

\* the live properties a freshly created element has by itself
HostDefaults ==
  [x \in {N_checked, N_disabled, N_autofocus, N_value, N_oninput} |->
     IF x = N_value THEN Str("") ELSE IF x = N_oninput THEN Null ELSE Bool(FALSE)]

\* a freshly created element
FreshDom(production) ==
  [props |-> HostDefaults, attrs |-> [x \in {} |-> [ns |-> "", val |-> Undef]], style |-> Empty,
   cssText |-> Str(""), innerHTML |-> "", delegated |-> Empty, lastVNode |-> NullVNode,
   production |-> production, thrown |-> FALSE, log |-> <<>>]

\* the node as an operation receives it
Arg(lastVNode) == [dom EXCEPT !.log = <<>>, !.thrown = FALSE, !.lastVNode = lastVNode]

\* a fresh node in a development build
Init ==
  /\ dom = FreshDom(FALSE)
  /\ pre = dom
  /\ call = InitCall
  /\ prev = NoPrev

\* a fresh node in a development or a production build
InitAnyBuild ==
  /\ dom \in {FreshDom(production) : production \in BOOLEAN}
  /\ pre = dom
  /\ call = InitCall
  /\ prev = NoPrev

PatchProp(prop, lastValue, nextValue, isSVG, hasControlledValue, lastVNode, chain) ==
  /\ dom' = patchProp(prop, lastValue, nextValue, Arg(lastVNode), isSVG,
                      hasControlledValue, lastVNode)
  /\ pre' = Arg(lastVNode)
  /\ call' = Call("patchProp", prop, lastValue, nextValue, isSVG, hasControlledValue,
                  0, NoProps, chain)

\* controlled: what the form-control collaborator holds of the element; removeProp
\* takes no such argument
RemoveProp(prop, lastValue, nextFlags, controlled) ==
  /\ dom' = removeProp(prop, lastValue, Arg(NullVNode), nextFlags)
  /\ pre' = Arg(NullVNode)
  /\ call' = Call("removeProp", prop, lastValue, Null, FALSE, controlled, nextFlags,
                  NoProps, FALSE)

MountProps(flags, props, isSVG) ==
  /\ call.op = "init"
  /\ dom' = mountProps(NullVNode, flags, props, Arg(NullVNode), isSVG)
  /\ pre' = Arg(NullVNode)
  /\ call' = Call("mountProps", N_none, Undef, Undef, isSVG,
                  BitAnd(flags, VNodeFlags_FormElement) > 0 /\ isControlledFormElement(props),
                  flags, props, FALSE)

\* a controlled-form wrapper installs its own, marked, handler on the node
AttachWrapped(name, id) ==
  /\ dom' = SetProp(Arg(NullVNode), toLowerCase(name), WrappedFn(id))
  /\ pre' = Arg(NullVNode)
  /\ call' = Call("attachWrapped", name, Undef, WrappedFn(id), FALSE, TRUE, 0, NoProps, FALSE)

Refs == 1..MaxRef

-----------------------------------------------------------------------------
(* Boolean properties *)

BoolNames == {N_checked, N_disabled, N_autoFocus}
BoolVals == {Null, Bool(TRUE), Bool(FALSE), Num(0), Str("on")}

BoolPatch ==
  \E prop \in BoolNames, lastValue \in BoolVals, nextValue \in BoolVals :
    /\ PatchProp(prop, lastValue, nextValue, FALSE, FALSE, NullVNode, FALSE)
    /\ UNCHANGED prev

BoolRemove ==
  \E prop \in BoolNames, lastValue \in BoolVals \ {Undef, Null} :
    /\ RemoveProp(prop, lastValue, VNodeFlags_HtmlElement, FALSE)
    /\ UNCHANGED prev

NextBool == BoolPatch \/ BoolRemove
SpecBool == Init /\ [][NextBool]_vars

-----------------------------------------------------------------------------
(* Strict-assigned properties, two calls in a row *)

StrictNames == {N_volume, N_value}
StrictVals == {Undef, Null, Str("a")}

StrictPatch ==
  \E prop \in StrictNames, lastValue \in StrictVals, nextValue \in StrictVals,
     hasControlledValue \in BOOLEAN :
    /\ hasControlledValue => prop = N_value
    /\ PatchProp(prop, lastValue, nextValue, FALSE, hasControlledValue, NullVNode, FALSE)
    /\ prev' = [call |-> call, log |-> dom.log]

NextStrict == StrictPatch
SpecStrict == Init /\ [][NextStrict]_vars

-----------------------------------------------------------------------------
(* Event properties *)

EventNames == {N_onInput, N_onClick}
EventVals == {Undef, Null, Fn(1), LinkObj(1, 1), LinkObj(1, -1)}

EventPatch ==
  \E prop \in EventNames, lastValue \in EventVals, nextValue \in EventVals :
    /\ PatchProp(prop, lastValue, nextValue, FALSE, FALSE, NullVNode, FALSE)
    /\ UNCHANGED prev

EventRemove ==
  \E prop \in EventNames, lastValue \in EventVals \ {Undef, Null} :
    /\ RemoveProp(prop, lastValue, VNodeFlags_InputElement, FALSE)
    /\ UNCHANGED prev

EventAttach ==
  /\ AttachWrapped(N_onInput, MaxRef)
  /\ UNCHANGED prev

NextEvent == EventPatch \/ EventRemove \/ EventAttach
SpecEvent == InitAnyBuild /\ [][NextEvent]_vars

-----------------------------------------------------------------------------
(* Style *)

Entry3(t, n, s) == [t |-> t, n |-> n, s |-> s]
WidthVals == {Absent3, Entry3("null", 0, ""), Entry3("string", 0, "1px"), Entry3("number", MaxNum, "")}
HeightVals == {Absent3, Entry3("string", 0, "1px")}
OpacityVals == {Absent3, Entry3("number", MaxNum, "")}

StyleMaps ==
  {m \in [StyleKeys -> WidthVals \cup HeightVals \cup OpacityVals] :
     /\ m[N_width] \in WidthVals
     /\ m[N_height] \in HeightVals
     /\ m[N_opacity] \in OpacityVals}

\* two identities: an update passes the object of the preceding call or another one
StyleRefs == {1, 2}
StyleObjs == {StyleObj(ref, m) : ref \in StyleRefs, m \in StyleMaps}
StyleVals == StyleObjs \cup {Str("top:0"), Null}

\* a style map whose values are all strings or numbers
PureMap(v) ==
  /\ v.t = "object"
  /\ \A k \in StyleKeys : v.m[k].t \in {"absent", "string", "number"}

\* the first application, on the fresh node, with no previous value
StyleMount ==
  /\ call.op = "init"
  /\ \E nextValue \in StyleVals \ {Null} :
       PatchProp(N_style, Null, nextValue, FALSE, FALSE, NullVNode, PureMap(nextValue))
  /\ UNCHANGED prev

\* an update: the previous value is the value the preceding call applied
StyleUpdate ==
  /\ call.op # "init"
  /\ \E nextValue \in StyleVals :
       PatchProp(N_style, call.nextValue, nextValue, FALSE, FALSE, NullVNode,
                 call.chain /\ PureMap(nextValue))
  /\ UNCHANGED prev

\* the property left the property map
StyleRemove ==
  /\ call.op # "init"
  /\ ~isNullOrUndef(call.nextValue)
  /\ RemoveProp(N_style, call.nextValue, VNodeFlags_HtmlElement, FALSE)
  /\ UNCHANGED prev

NextStyle == StyleMount \/ StyleUpdate \/ StyleRemove
SpecStyle == Init /\ [][NextStyle]_vars

-----------------------------------------------------------------------------
(* Raw HTML *)

HtmlStrings == {"<p>a</p>", "<P>a</P>", "<p>b</p>"}
HtmlVals == {HtmlObj(ref, html) : ref \in Refs, html \in HtmlStrings} \cup {Null}
LastVNodes ==
  {NullVNode}
    \cup {VNode(1, childFlags) :
            childFlags \in {ChildFlags_HasInvalidChildren, ChildFlags_HasVNodeChildren,
                            ChildFlags_HasNonKeyedChildren, ChildFlags_HasKeyedChildren}}

HtmlPatch ==
  \E lastValue \in HtmlVals, nextValue \in HtmlVals, lastVNode \in LastVNodes :
    /\ PatchProp(N_dangerouslySetInnerHTML, lastValue, nextValue, FALSE, FALSE, lastVNode, FALSE)
    /\ UNCHANGED prev

HtmlRemove ==
  \E lastValue \in HtmlVals \ {Null} :
    /\ RemoveProp(N_dangerouslySetInnerHTML, lastValue, VNodeFlags_HtmlElement, FALSE)
    /\ UNCHANGED prev

NextHtml == HtmlPatch \/ HtmlRemove
SpecHtml == Init /\ [][NextHtml]_vars

-----------------------------------------------------------------------------
(* Mount of a property map, and the later updates of "value" *)

MountEntries ==
  { [name |-> N_value, value |-> Str("a")],
    [name |-> N_disabled, value |-> Bool(TRUE)],
    [name |-> N_id, value |-> Str("x")],
    [name |-> N_xlinkHref, value |-> Str("#a")],
    [name |-> N_onInput, value |-> Fn(1)] }

\* the property maps of at most MaxProps entries, as the entries in enumeration order
PropLists ==
  UNION { { l \in [1..n -> MountEntries] :
              \A i, j \in 1..n : i # j => l[i].name # l[j].name } : n \in 0..MaxProps }

MountFlags == {VNodeFlags_HtmlElement, VNodeFlags_InputElement, VNodeFlags_SelectElement}

MountNode ==
  \E flags \in MountFlags, entries \in PropLists, controlled \in BOOLEAN, isSVG \in BOOLEAN :
    /\ MountProps(flags, [entries |-> entries, controlled |-> controlled], isSVG)
    /\ UNCHANGED prev

MountedPatchValue ==
  /\ call.op # "init"
  /\ \E lastValue \in {Null, Str("a"), Str("b")}, nextValue \in {Null, Str("a"), Str("b")},
        hasControlledValue \in BOOLEAN :
       PatchProp(N_value, lastValue, nextValue, FALSE, hasControlledValue, NullVNode, FALSE)
  /\ UNCHANGED prev

MountedRemoveValue ==
  /\ call.op # "init"
  /\ \E lastValue \in {Str("a"), Str("b")}, nextFlags \in MountFlags, controlled \in BOOLEAN :
       RemoveProp(N_value, lastValue, nextFlags, controlled)
  /\ UNCHANGED prev

NextMount == MountNode \/ MountedPatchValue \/ MountedRemoveValue
SpecMount == Init /\ [][NextMount]_vars

-----------------------------------------------------------------------------
(* Removal against update to null, one name of every category *)

CategoryValues ==
  { [name |-> N_onClick, value |-> Fn(1)],
    [name |-> N_disabled, value |-> Bool(TRUE)],
    [name |-> N_volume, value |-> Str("a")],
    [name |-> N_onInput, value |-> Fn(1)],
    [name |-> N_style, value |-> Str("top:0")],
    [name |-> N_dangerouslySetInnerHTML, value |-> HtmlObj(1, "<p>a</p>")],
    [name |-> N_id, value |-> Str("x")] }

CategorySet ==
  \E p \in CategoryValues :
    /\ PatchProp(p.name, Null, p.value, FALSE, FALSE, NullVNode, FALSE)
    /\ UNCHANGED prev

CategoryPatchNull ==
  \E p \in CategoryValues :
    /\ PatchProp(p.name, p.value, Null, FALSE, FALSE, NullVNode, FALSE)
    /\ UNCHANGED prev

CategoryRemove ==
  \E p \in CategoryValues :
    /\ RemoveProp(p.name, p.value, VNodeFlags_HtmlElement, FALSE)
    /\ UNCHANGED prev

NextRemove == CategorySet \/ CategoryPatchNull \/ CategoryRemove
SpecRemove == Init /\ [][NextRemove]_vars

-----------------------------------------------------------------------------
(* Claims *)

\* the number of writes of the live property `name` in a log
LiveWrites(log, name) == Len(SelectSeq(log, LAMBDA x : x.op = "set" /\ x.name = name))

\* the latest call was a patchProp that reached the branch of `kind`
ReachedBoolean ==
  /\ call.op = "patchProp"
  /\ call.lastValue # call.nextValue
  /\ call.prop \in booleanProps
  /\ call.prop \notin delegatedEvents \cup skipProps

\* the live property the boolean branch assigns for the name p
LiveName(p) == IF p = N_autoFocus THEN N_autofocus ELSE p

\* C1 as stated: for every boolean-classified name p, every value v and every
\* previous value (also one equal to v, also for autoFocus), after
\* patchProp(p, prevAny, v, node) the live property of the node equals !!v.
C1_BooleanEqualsCoercedForAnyPrevious ==
  (call.op = "patchProp" /\ call.prop \in booleanProps /\ call.prop \notin skipProps)
    => Get(dom.props, LiveName(call.prop)) = Bool(Truthy(call.nextValue))

\* C1 amended: for every boolean-classified name p that is neither delegated nor
\* skipped, and every previous value that differs from v, after patchProp the
\* live property (named autofocus for autoFocus, p otherwise) equals !!v.
C1_ChangedBooleanEqualsCoerced ==
  ReachedBoolean
    => Get(dom.props, LiveName(call.prop))
         = (IF call.nextValue \in {Null, Bool(FALSE), Num(0), Str("")}
              THEN Bool(FALSE) ELSE Bool(TRUE))

C1_Witness ==
  /\ ReachedBoolean
  /\ call.prop = N_autoFocus
  /\ call.nextValue = Str("on")
  /\ Get(dom.props, N_autofocus) = Bool(TRUE)
  /\ N_autoFocus \notin DOMAIN dom.props

\* two patchProp calls in a row with the same strict-assigned name and next value
SameStrictTwice ==
  /\ call.op = "patchProp"
  /\ prev.call.op = "patchProp"
  /\ call.prop \in strictProps
  /\ prev.call.prop = call.prop
  /\ prev.call.nextValue = call.nextValue

\* the call c got as far as the strict branch
ReachedStrict(c) ==
  /\ c.op = "patchProp"
  /\ c.prop \in strictProps
  /\ c.lastValue # c.nextValue
  /\ ~(c.hcv /\ c.prop = N_value)

Coalesced(v) == IF v \in {Null, Undef} THEN Str("") ELSE v

\* C3 as stated: applying the same value twice in a row to a strict-assigned
\* property causes exactly one write of the live property, none of them by the
\* second call, whatever previous values the caller passes.
C3_ExactlyOneWriteInTwoCalls ==
  SameStrictTwice
    => /\ LiveWrites(prev.log, call.prop) + LiveWrites(dom.log, call.prop) = 1
       /\ LiveWrites(dom.log, call.prop) = 0

\* C3 amended: the two calls cause at most one write; a call that reaches the
\* strict branch writes exactly when the live value differs from v (null and
\* absent coalesced to ""), and so the second call writes nothing when the first
\* one reached the strict branch.
C3_AtMostOneWriteInTwoCalls ==
  /\ SameStrictTwice
       => /\ LiveWrites(prev.log, call.prop) + LiveWrites(dom.log, call.prop) <= 1
          /\ ReachedStrict(prev.call) => LiveWrites(dom.log, call.prop) = 0
  /\ ReachedStrict(call)
       => /\ LiveWrites(dom.log, call.prop)
               = (IF Get(pre.props, call.prop) = Coalesced(call.nextValue) THEN 0 ELSE 1)
          /\ Get(dom.props, call.prop) = Coalesced(call.nextValue)

C3_Witness ==
  /\ SameStrictTwice
  /\ ReachedStrict(prev.call)
  /\ ReachedStrict(call)
  /\ LiveWrites(prev.log, call.prop) = 1
  /\ LiveWrites(dom.log, call.prop) = 0
  /\ call.nextValue = Null
  /\ Get(dom.props, call.prop) = Str("")

\* patchEvent was entered with next absent/null for the name onInput
PatchEventWithNull ==
  /\ call.prop = N_onInput
  /\ \/ call.op = "removeProp"
     \/ /\ call.op = "patchProp"
        /\ call.lastValue # call.nextValue
        /\ call.nextValue \in {Null, Undef}

\* C9: when patchEvent is called with next absent/null (through patchProp or
\* removeProp), the lower-cased handler slot is left as it was if the handler in
\* it is marked wrapped, and is overwritten with next otherwise.
C9_WrappedHandlerKept ==
  PatchEventWithNull
    => LET before == Get(pre.props, N_oninput)
           next == IF call.op = "removeProp" THEN Null ELSE call.nextValue
       IN IF before = WrappedFn(MaxRef)
            THEN /\ Get(dom.props, N_oninput) = before
                 /\ LiveWrites(dom.log, N_oninput) = 0
            ELSE /\ N_oninput \in DOMAIN dom.props
                 /\ dom.props[N_oninput] = next
                 /\ LiveWrites(dom.log, N_oninput) = 1

C9_Witness ==
  /\ PatchEventWithNull
  /\ call.op = "removeProp"
  /\ Get(pre.props, N_oninput) = WrappedFn(MaxRef)
  /\ Get(dom.props, N_oninput) = WrappedFn(MaxRef)

\* the other half of C9: an unmarked handler is overwritten
C9_WitnessOverwritten ==
  /\ PatchEventWithNull
  /\ call.op = "patchProp"
  /\ Get(pre.props, N_oninput) = Fn(1)
  /\ Get(dom.props, N_oninput) = call.nextValue

\* the values written to the style key k, in order
StyleWrites(log, k) ==
  LET w == SelectSeq(log, LAMBDA x : x.op = "style" /\ x.name = k)
  IN [i \in 1..Len(w) |-> w[i].val]

HasKey(obj, k) == obj.t = "object" /\ obj.m[k].t # "absent"

\* the value a style key is given for the map entry v: a number gets "px"
\* unless the key is opacity
Normalised(k, v) == IF v.t = "number" /\ k # N_opacity THEN PlusPx(v) ELSE v

\* patchStyle ran with previous and next both structured
BothStructured ==
  /\ call.op = "patchProp"
  /\ call.prop = N_style
  /\ call.lastValue # call.nextValue
  /\ call.lastValue.t = "object"
  /\ call.nextValue.t = "object"

Differs(k) == HasKey(call.nextValue, k) /\ Field(call.nextValue, k) # Field(call.lastValue, k)
Leaves(k) == HasKey(call.lastValue, k) /\ Field(call.nextValue, k) \in {Null, Undef}

\* C4 as stated: with previous and next both structured, patchStyle writes exactly
\* the keys of next whose value differs (unit rule), sets to "" every key of
\* previous that is absent/null in next, and performs no write for a key whose
\* value is identical in previous and next, nor for any other key.
C4_WritesOnlyChangedKeys ==
  BothStructured
    => \A k \in StyleKeys :
         LET w == StyleWrites(dom.log, k) IN
         /\ Differs(k) => (w # <<>> /\ w[1] = Normalised(k, Field(call.nextValue, k)))
         /\ Leaves(k) => (w # <<>> /\ w[Len(w)] = Str(""))
         /\ (Field(call.nextValue, k) = Field(call.lastValue, k)) => w = <<>>
         /\ (~Differs(k) /\ ~Leaves(k)) => w = <<>>

\* C4 amended: as stated, but the key whose value is identical is left unwritten
\* only when that value is not null: a key of previous that is null in both maps
\* is set to "" like any other key that is null in next.
C4_WritesChangedAndNullKeys ==
  BothStructured
    => /\ \A k \in StyleKeys :
            StyleWrites(dom.log, k)
              = (IF Differs(k) THEN <<Normalised(k, Field(call.nextValue, k))>> ELSE <<>>)
                \o (IF Leaves(k) THEN <<Str("")>> ELSE <<>>)
       /\ \A i \in 1..Len(dom.log) : dom.log[i].op = "style"
       /\ \A k \in StyleKeys :
            (HasKey(call.lastValue, k) /\ HasKey(call.nextValue, k)
               /\ Field(call.lastValue, k) = Field(call.nextValue, k)
               /\ Field(call.nextValue, k) # Null)
              => /\ StyleWrites(dom.log, k) = <<>>
                 /\ Get(dom.style, k) = Get(pre.style, k)
       /\ dom.cssText = pre.cssText
       /\ dom.attrs = pre.attrs

\* previous {width: "1px", height: "1px"}, next {width: "1px", opacity: MaxNum}:
\* height is cleared, width is not written, opacity is written without a unit
C4_Witness ==
  /\ BothStructured
  /\ Field(call.lastValue, N_width) = Str("1px")
  /\ Field(call.lastValue, N_height) = Str("1px")
  /\ ~HasKey(call.lastValue, N_opacity)
  /\ Field(call.nextValue, N_width) = Str("1px")
  /\ ~HasKey(call.nextValue, N_height)
  /\ Field(call.nextValue, N_opacity) = Num(MaxNum)
  /\ StyleWrites(dom.log, N_width) = <<>>
  /\ StyleWrites(dom.log, N_height) = <<Str("")>>
  /\ StyleWrites(dom.log, N_opacity) = <<Num(MaxNum)>>

\* C10: after a mount of a structured style map on a node with empty style and
\* any chain of updates, each passing the preceding next map as previous, all
\* maps holding only strings and numbers, every style key that is in the latest
\* map holds its unit-normalised value and every other key ever written holds "".
C10_StyleFollowsLatestMap ==
  call.chain
    => \A k \in StyleKeys :
         IF HasKey(call.nextValue, k)
           THEN /\ k \in DOMAIN dom.style
                /\ dom.style[k] = Normalised(k, Field(call.nextValue, k))
           ELSE k \in DOMAIN dom.style => dom.style[k] = Str("")

C10_Witness ==
  /\ call.chain
  /\ call.lastValue.t = "object"
  /\ HasKey(call.lastValue, N_width)
  /\ ~HasKey(call.nextValue, N_width)
  /\ Field(call.lastValue, N_width) = Str("1px")
  /\ Get(dom.style, N_width) = Str("")
  /\ Field(call.nextValue, N_height) = Str("1px")
  /\ Get(dom.style, N_height) = Str("1px")
  /\ Field(call.nextValue, N_opacity) = Num(MaxNum)
  /\ Get(dom.style, N_opacity) = Num(MaxNum)

\* the host node and the collaborators' state, without the log of the call
Node(d) ==
  [props |-> d.props, attrs |-> d.attrs, style |-> d.style, cssText |-> d.cssText,
   innerHTML |-> d.innerHTML, delegated |-> d.delegated]

\* C2: for every property name and non-null previous value,
\* removeProp(name, previous, node, flags) leaves the node and the collaborators
\* in the state patchProp(name, previous, null, node, ...) leaves them in.
C2_RemoveEqualsPatchToNull ==
  call.op = "removeProp"
    => Node(dom) = Node(patchProp(call.prop, call.lastValue, Null, pre, FALSE, FALSE, NullVNode))

\* C2, for the names on which the two paths do agree: a delegated event, an
\* event by convention, style and a plain attribute
C2_AgreeingCategories ==
  (call.op = "removeProp" /\ call.prop \in {N_onClick, N_onInput, N_style, N_id})
    => dom = patchProp(call.prop, call.lastValue, Null, pre, FALSE, FALSE, NullVNode)

\* the positions of the log at which op was logged
At(log, op) == {i \in 1..Len(log) : log[i].op = op}

\* a patchProp call of the raw-HTML marker
HtmlCall == call.op = "patchProp" /\ call.prop = N_dangerouslySetInnerHTML

\* C5: when the raw content is assigned and a prior child representation is
\* recorded, its release (unmountAllChildren for multiple children, unmount for a
\* single child) and its marking as cleared (children = null, childFlags =
\* HasInvalidChildren) come strictly before the assignment.
C5_ReleaseBeforeInnerHTML ==
  HtmlCall
    => \A i \in At(dom.log, "innerHTML") :
         \/ pre.lastVNode.null
         \/ /\ pre.lastVNode.childFlags \in {ChildFlags_HasNonKeyedChildren, ChildFlags_HasKeyedChildren}
                 => \E j \in At(dom.log, "unmountAllChildren") :
                      j < i /\ dom.log[j].val = Num(pre.lastVNode.children)
            /\ pre.lastVNode.childFlags = ChildFlags_HasVNodeChildren
                 => \E j \in At(dom.log, "unmount") :
                      j < i /\ dom.log[j].val = Num(pre.lastVNode.children)
            /\ \E j \in At(dom.log, "lastVNode.children") : j < i
            /\ \E j \in At(dom.log, "lastVNode.childFlags") : j < i
            /\ dom.lastVNode = VNode(0, ChildFlags_HasInvalidChildren)

C5_Witness ==
  /\ HtmlCall
  /\ HtmlOf(call.lastValue) = "<p>a</p>"
  /\ HtmlOf(call.nextValue) = "<p>b</p>"
  /\ pre.lastVNode = VNode(1, ChildFlags_HasVNodeChildren)
  /\ Len(dom.log) = 4
  /\ dom.log[1].op = "unmount"
  /\ dom.log[4].op = "innerHTML"
  /\ dom.innerHTML = "<p>b</p>"

\* C6: re-applying a payload whose html equals the previous payload's html (even
\* as another object), or equals the node's current content by the host's
\* equality check, writes no raw content and releases no prior children.
C6_SameHtmlWritesNothing ==
  (/\ HtmlCall
   /\ call.nextValue.t = "object"
   /\ \/ call.nextValue.s = (IF call.lastValue.t = "object" THEN call.lastValue.s ELSE "")
      \/ pre.innerHTML = NormalizeHtml(call.nextValue.s))
    => /\ dom.log = <<>>
       /\ dom.innerHTML = pre.innerHTML
       /\ dom.lastVNode = pre.lastVNode

C6_Witness ==
  /\ HtmlCall
  /\ call.lastValue.t = "object"
  /\ call.nextValue.t = "object"
  /\ call.lastValue.n # call.nextValue.n
  /\ call.lastValue.s = call.nextValue.s
  /\ pre.innerHTML # NormalizeHtml(call.nextValue.s)
  /\ pre.lastVNode = VNode(1, ChildFlags_HasKeyedChildren)
  /\ dom.log = <<>>

\* the other case of C6: the host's content already equals the new html
C6_WitnessHostEqual ==
  /\ HtmlCall
  /\ HtmlOf(call.lastValue) = "<p>b</p>"
  /\ HtmlOf(call.nextValue) = "<P>a</P>"
  /\ pre.innerHTML = "<p>a</p>"
  /\ dom.log = <<>>

\* the logged patchProp calls of a mount, in order
MountCalls == SelectSeq(dom.log, LAMBDA x : x.op = "patchProp")

IsFormFlags(flags) == flags \in {VNodeFlags_InputElement, VNodeFlags_SelectElement}

\* C7: mountProps calls patchProp once for every entry of the property map with
\* previous = null; for a form element processElement is invoked exactly once,
\* with isMount = true and the controlled flag, after everything else; for any
\* other element neither isControlledFormElement nor processElement is invoked.
C7_MountOrder ==
  call.op = "mountProps"
    => /\ Len(MountCalls) = Len(call.props.entries)
       /\ \A i \in 1..Len(MountCalls) :
            /\ MountCalls[i].name = call.props.entries[i].name
            /\ MountCalls[i].val = call.props.entries[i].value
            /\ MountCalls[i].last = Null
       /\ IsFormFlags(call.flags)
            => /\ At(dom.log, "processElement:mount") = {Len(dom.log)}
               /\ dom.log[Len(dom.log)].val = Bool(call.props.controlled)
               /\ At(dom.log, "isControlledFormElement") = {1}
               /\ At(dom.log, "processElement:update") = {}
       /\ ~IsFormFlags(call.flags)
            => /\ At(dom.log, "processElement:mount") = {}
               /\ At(dom.log, "processElement:update") = {}
               /\ At(dom.log, "isControlledFormElement") = {}

C7_Witness ==
  /\ call.op = "mountProps"
  /\ call.flags = VNodeFlags_InputElement
  /\ call.props.controlled
  /\ Len(call.props.entries) = MaxProps
  /\ call.props.entries[MaxProps].name = N_id
  /\ Len(dom.log) >= 2
  /\ dom.log[Len(dom.log)].op = "processElement:mount"
  /\ dom.log[Len(dom.log) - 1].op = "setAttribute"

\* the log holds a write of the live value property or of the value attribute
WritesValue(log) ==
  \E i \in 1..Len(log) :
    /\ log[i].name = N_value
    /\ log[i].op \in {"set", "setAttribute", "setAttributeNS", "removeAttribute"}

\* C8: while the value of a form element is controlled, no entry point (patchProp
\* with hasControlledValue, mountProps of a controlled form element, removeProp of
\* "value") writes the live value property or the value attribute.
C8_ControlledValueNeverWritten ==
  (call.op \in {"patchProp", "mountProps", "removeProp"} /\ call.hcv)
    => ~WritesValue(dom.log)

\* C8, for the two entry points that are told that the value is controlled
C8_PatchAndMountDeferValue ==
  (call.op \in {"patchProp", "mountProps"} /\ call.hcv)
    => ~WritesValue(dom.log)

====
